---- MODULE Spec2Model ----
(***************************************************************************)
(* Model of the heuristic risk scorer TextAnalyzer (src/text_analyzer.py)  *)
(* and of its caller predict_news (src/app.py).                            *)
(*                                                                         *)
(* Text is a sequence of one-character strings.  Scores are exact          *)
(* rationals <<n, d>> in lowest terms with d > 0; Python computes them in  *)
(* binary floating point, whose rounding error (about 1e-16) is not        *)
(* modelled: every comparison here is the comparison of the exact values.  *)
(***************************************************************************)
EXTENDS Integers, Sequences, FiniteSets, TLC

VARIABLES
    sensational_keywords,  \* self.sensational_keywords of the shared TextAnalyzer
    emotional_words,       \* self.emotional_words of the shared TextAnalyzer
    pc,                    \* position of each caller
    headline, body,        \* arguments of each caller's call
    text,                  \* local `text` of analyze
    sensational_score, punctuation_score, caps_score, length_score,
    emotional_score,       \* locals of analyze
    result,                \* value returned by analyze: [risk_score, details]
    ml_fake_score,         \* predict_news: probability of class 0 from the classifier
    final_score, verdict,
    confidence,            \* locals of predict_news
    prediction             \* value returned by predict_news

analyzerState == <<sensational_keywords, emotional_words>>

args == <<headline, body>>

locals == <<text, sensational_score, punctuation_score, caps_score, length_score,
            emotional_score>>

predictVars == <<ml_fake_score, final_score, verdict, confidence, prediction>>

vars == <<analyzerState, pc, args, locals, result, predictVars>>

----------------------------------------------------------------------------
(* Characters                                                              *)

UpperSeq ==
    <<"A", "B", "C", "D", "E", "F", "G", "H", "I", "J", "K", "L", "M",
      "N", "O", "P", "Q", "R", "S", "T", "U", "V", "W", "X", "Y", "Z">>

LowerSeq ==
    <<"a", "b", "c", "d", "e", "f", "g", "h", "i", "j", "k", "l", "m",
      "n", "o", "p", "q", "r", "s", "t", "u", "v", "w", "x", "y", "z">>

UpperSet == {UpperSeq[i] : i \in DOMAIN UpperSeq}

LowerSet == {LowerSeq[i] : i \in DOMAIN LowerSeq}

Whitespace == {" ", "\t", "\n"}

LowerOf == [c \in UpperSet |-> LowerSeq[CHOOSE i \in DOMAIN UpperSeq : UpperSeq[i] = c]]

\* str.isalpha() of one character
isalpha(c) == c \in UpperSet \/ c \in LowerSet

\* str.isupper() of one alphabetic character
isupper(c) == c \in UpperSet

\* str.lower()
lower(s) == [i \in 1..Len(s) |-> IF s[i] \in UpperSet THEN LowerOf[s[i]] ELSE s[i]]

\* str.strip(): drop leading and trailing whitespace
strip(s) ==
    LET keep == {i \in 1..Len(s) : s[i] \notin Whitespace}
    IN  IF keep = {} THEN <<>>
        ELSE LET first == CHOOSE i \in keep : \A j \in keep : i <= j
                 last  == CHOOSE i \in keep : \A j \in keep : j <= i
             IN  SubSeq(s, first, last)

\* str.split(): the maximal runs of non-whitespace characters, in order; the
\* k-th run goes from the k-th position that starts one to the k-th that ends one
split(s) ==
    LET starts == {i \in 1..Len(s) : s[i] \notin Whitespace
                                        /\ (i = 1 \/ s[i - 1] \in Whitespace)}
        ends == {i \in 1..Len(s) : s[i] \notin Whitespace
                                      /\ (i = Len(s) \/ s[i + 1] \in Whitespace)}
        srank == [i \in starts |-> Cardinality({j \in starts : j <= i})]
        erank == [i \in ends |-> Cardinality({j \in ends : j <= i})]
    IN  [k \in 1..Cardinality(starts) |->
            SubSeq(s, CHOOSE i \in starts : srank[i] = k,
                      CHOOSE i \in ends : erank[i] = k)]

\* sub occurs in s at position i
MatchAt(s, sub, i) ==
    /\ i + Len(sub) - 1 <= Len(s)
    /\ \A k \in 1..Len(sub) : s[i + k - 1] = sub[k]

\* `sub in s`
Contains(s, sub) == \E i \in 1..Len(s) : MatchAt(s, sub, i)

\* s.count(sub): non-overlapping occurrences, scanning from the left
RECURSIVE CountFrom(_, _, _)
CountFrom(s, sub, i) ==
    LET hits == {j \in i..Len(s) : MatchAt(s, sub, j)}
    IN  IF hits = {} THEN 0
        ELSE LET first == CHOOSE j \in hits : \A k \in hits : j <= k
             IN  1 + CountFrom(s, sub, first + Len(sub))

count(s, sub) == CountFrom(s, sub, 1)

\* len(re.findall(ch{k,}, s)): a greedy match takes a whole maximal run of ch,
\* so the matches are the maximal runs of ch of length at least k
findall_runs(s, ch, k) ==
    Cardinality({i \in 1..Len(s) :
        /\ s[i] = ch
        /\ (i = 1 \/ s[i - 1] # ch)
        /\ i + k - 1 <= Len(s)
        /\ \A j \in i..(i + k - 1) : s[j] = ch})

----------------------------------------------------------------------------
(* Exact rational arithmetic                                               *)

RECURSIVE GCD(_, _)
GCD(a, b) == IF b = 0 THEN a ELSE GCD(b, a % b)

Abs(a) == IF a < 0 THEN -a ELSE a

\* n/d in lowest terms, d > 0
Rat(n, d) ==
    LET g == GCD(Abs(n), d)
    IN  <<n \div g, d \div g>>

Num(x) == x[1]

Den(x) == x[2]

RAdd(x, y) ==
    LET g == GCD(Den(x), Den(y))
        l == (Den(x) \div g) * Den(y)
    IN  Rat(Num(x) * (l \div Den(x)) + Num(y) * (l \div Den(y)), l)

RSub(x, y) == RAdd(x, <<-Num(y), Den(y)>>)

RMul(x, y) ==
    LET a == Rat(Num(x), Den(y))
        b == Rat(Num(y), Den(x))
    IN  Rat(Num(a) * Num(b), Den(a) * Den(b))

RLess(x, y) == Num(x) * Den(y) < Num(y) * Den(x)

RGreater(x, y) == RLess(y, x)

RMin(x, y) == IF RLess(y, x) THEN y ELSE x

RMax(x, y) == IF RGreater(y, x) THEN y ELSE x

Zero == Rat(0, 1)

One == Rat(1, 1)

\* round(x, ndigits) for x >= 0, scale = 10^ndigits: the nearest multiple of
\* 1/scale, ties to even.  Python rounds the binary value it holds, so where the
\* exact value is a tie its result is whichever neighbour the representation
\* error favours.
round(x, scale) ==
    LET n == Num(x) * scale
        q == n \div Den(x)
        r == n % Den(x)
        up == 2 * r > Den(x) \/ (2 * r = Den(x) /\ q % 2 = 1)
    IN  Rat(IF up THEN q + 1 ELSE q, scale)

----------------------------------------------------------------------------
(* TextAnalyzer.__init__: the two keyword lists                            *)

SENSATIONAL_KEYWORDS ==
    << <<"s", "h", "o", "c", "k", "i", "n", "g">>,
       <<"b", "a", "n", "n", "e", "d">>,
       <<"e", "x", "p", "o", "s", "e", "d">>,
       <<"t", "r", "u", "t", "h">>,
       <<"b", "r", "e", "a", "k", "i", "n", "g">>,
       <<"u", "r", "g", "e", "n", "t">>,
       <<"a", "l", "e", "r", "t">>,
       <<"s", "c", "a", "n", "d", "a", "l">>,
       <<"s", "e", "c", "r", "e", "t">>,
       <<"r", "e", "v", "e", "a", "l", "e", "d">>,
       <<"u", "n", "b", "e", "l", "i", "e", "v", "a", "b", "l", "e">>,
       <<"m", "i", "r", "a", "c", "l", "e">>,
       <<"w", "a", "r", "n", "i", "n", "g">>,
       <<"d", "a", "n", "g", "e", "r">>,
       <<"c", "r", "i", "s", "i", "s">>,
       <<"l", "e", "a", "k", "e", "d">>,
       <<"e", "x", "c", "l", "u", "s", "i", "v", "e">>,
       <<"b", "o", "m", "b", "s", "h", "e", "l", "l">>,
       <<"p", "r", "o", "o", "f">>,
       <<"e", "v", "i", "d", "e", "n", "c", "e">> >>

EMOTIONAL_WORDS ==
    << <<"f", "e", "a", "r">>,
       <<"a", "n", "g", "r", "y">>,
       <<"h", "a", "t", "e">>,
       <<"l", "o", "v", "e">>,
       <<"t", "e", "r", "r", "i", "f", "y", "i", "n", "g">>,
       <<"a", "m", "a", "z", "i", "n", "g">>,
       <<"h", "o", "r", "r", "i", "b", "l", "e">>,
       <<"d", "i", "s", "g", "u", "s", "t", "i", "n", "g">>,
       <<"o", "u", "t", "r", "a", "g", "e", "o", "u", "s">> >>

----------------------------------------------------------------------------
(* TextAnalyzer: the sub-scores                                            *)

NoValue == <<>>

\* sum(1 for word in words if word in text_lower): the number of list entries
\* that occur in the lowercased text
keyword_count(words, text_lower) ==
    Cardinality({k \in DOMAIN words : Contains(text_lower, words[k])})

\* variant: the text is matched without being lowercased
check_sensationalism_cased(keywords, txt) ==
    RMin(Rat(keyword_count(keywords, txt), 3), One)

\* variant: count // 3 instead of count / 3.0
check_sensationalism_floordiv(keywords, txt) ==
    RMin(Rat(keyword_count(keywords, lower(txt)) \div 3, 1), One)

check_sensationalism(keywords, txt) ==
    LET text_lower == lower(txt)
        cnt == keyword_count(keywords, text_lower)
    IN  RMin(Rat(cnt, 3), One)

\* variant: the sum is not capped at 1.0
check_punctuation_uncapped(txt) ==
    RMul(RAdd(RAdd(Rat(count(txt, <<"!">>), 3), Rat(count(txt, <<"?">>), 3)),
              RAdd(RAdd(Rat(count(txt, <<"?", "!">>) * 2, 1),
                        Rat(findall_runs(txt, ".", 3) * 3, 2)),
                   Rat(findall_runs(txt, "!", 2) * 3, 1))),
         Rat(1, 5))

check_punctuation(txt) ==
    LET exclamations == count(txt, <<"!">>)
        questions == count(txt, <<"?">>)
        interrobangs == count(txt, <<"?", "!">>)
        ellipses == findall_runs(txt, ".", 3)
        multiple_exclaim == findall_runs(txt, "!", 2)
        total_anomalies ==
            RAdd(RAdd(RAdd(RAdd(Rat(exclamations, 3), Rat(questions, 3)),
                           Rat(interrobangs * 2, 1)),
                      Rat(ellipses * 3, 2)),
                 Rat(multiple_exclaim * 3, 1))
    IN  RMin(RMul(total_anomalies, Rat(1, 5)), One)

\* variant: the thresholds are inclusive
check_capitalization_inclusive(txt) ==
    LET letters == SelectSeq(txt, isalpha)
    IN  IF letters = <<>> THEN Zero
        ELSE LET caps_ratio == Rat(Len(SelectSeq(letters, isupper)), Len(letters))
             IN  IF ~RLess(caps_ratio, Rat(6, 10)) THEN One
                 ELSE IF ~RLess(caps_ratio, Rat(4, 10)) THEN Rat(7, 10)
                 ELSE IF ~RLess(caps_ratio, Rat(2, 10)) THEN Rat(4, 10)
                 ELSE RMul(caps_ratio, Rat(2, 1))

\* variant: the ratio is taken over all characters instead of the letters
check_capitalization_allchars(txt) ==
    LET caps_ratio == Rat(Len(SelectSeq(txt, isupper)), Len(txt))
    IN  IF RGreater(caps_ratio, Rat(6, 10)) THEN One
        ELSE IF RGreater(caps_ratio, Rat(4, 10)) THEN Rat(7, 10)
        ELSE IF RGreater(caps_ratio, Rat(2, 10)) THEN Rat(4, 10)
        ELSE RMul(caps_ratio, Rat(2, 1))

check_capitalization(txt) ==
    IF txt = <<>> THEN Zero
    ELSE LET letters == SelectSeq(txt, isalpha)
         IN  IF letters = <<>> THEN Zero
             ELSE LET caps_ratio == Rat(Len(SelectSeq(letters, isupper)), Len(letters))
                  IN  IF RGreater(caps_ratio, Rat(6, 10)) THEN One
                      ELSE IF RGreater(caps_ratio, Rat(4, 10)) THEN Rat(7, 10)
                      ELSE IF RGreater(caps_ratio, Rat(2, 10)) THEN Rat(4, 10)
                      ELSE RMul(caps_ratio, Rat(2, 1))

\* variant: the first bracket includes 50 words
check_length_inclusive(txt, hl) ==
    LET word_count == Len(split(txt))
    IN  IF word_count <= 50 THEN RSub(One, Rat(word_count, 50))
        ELSE IF word_count < 100 THEN Rat(3, 10)
        ELSE Zero

\* the headline parameter is received and not used
check_length(txt, hl) ==
    LET word_count == Len(split(txt))
    IN  IF word_count < 50 THEN RSub(One, Rat(word_count, 50))
        ELSE IF word_count < 100 THEN Rat(3, 10)
        ELSE Zero

check_emotional_content(words, txt) ==
    LET text_lower == lower(txt)
        cnt == keyword_count(words, text_lower)
    IN  RMin(Rat(cnt, 4), One)

\* The flag strings, without the warning-sign prefix each carries in the source
FlagSensational == "Sensationalist language detected"

FlagPunctuation == "Excessive punctuation"

FlagCaps == "Excessive capitalization (shouting)"

FlagLength == "Suspiciously short content"

\* variant: an elif chain, so that at most one flag is emitted
generate_flags_exclusive(sensational, punctuation, caps, length) ==
    IF RGreater(sensational, Rat(5, 10)) THEN <<FlagSensational>>
    ELSE IF RGreater(punctuation, Rat(6, 10)) THEN <<FlagPunctuation>>
    ELSE IF RGreater(caps, Rat(6, 10)) THEN <<FlagCaps>>
    ELSE IF RGreater(length, Rat(7, 10)) THEN <<FlagLength>>
    ELSE <<>>

generate_flags(sensational, punctuation, caps, length) ==
    LET f1 == IF RGreater(sensational, Rat(5, 10)) THEN <<FlagSensational>> ELSE <<>>
        f2 == IF RGreater(punctuation, Rat(6, 10)) THEN <<FlagPunctuation>> ELSE <<>>
        f3 == IF RGreater(caps, Rat(6, 10)) THEN <<FlagCaps>> ELSE <<>>
        f4 == IF RGreater(length, Rat(7, 10)) THEN <<FlagLength>> ELSE <<>>
    IN  f1 \o f2 \o f3 \o f4

get_verdict(risk_score) ==
    IF RGreater(risk_score, Rat(7, 10)) THEN "HIGH RISK"
    ELSE IF RGreater(risk_score, Rat(4, 10)) THEN "MODERATE RISK"
    ELSE "LOW RISK"

weights ==
    [sensational |-> Rat(30, 100), punctuation |-> Rat(20, 100), caps |-> Rat(20, 100),
     length |-> Rat(15, 100), emotional |-> Rat(15, 100)]

\* variant: the concatenation is not stripped
combined_text_unstripped(hl, bd) == hl \o <<" ">> \o bd

\* text = f"{headline} {body}".strip()
combined_text(hl, bd) == strip(hl \o <<" ">> \o bd)

EmptyResult == [risk_score |-> Zero, details |-> [error |-> "Empty text"]]

\* lines 65-87 of analyze: the weighted sum, the clamp and the details
combine(s, p, c, l, e) ==
    LET raw == RAdd(RAdd(RAdd(RAdd(RMul(s, weights.sensational),
                                   RMul(p, weights.punctuation)),
                              RMul(c, weights.caps)),
                         RMul(l, weights.length)),
                    RMul(e, weights.emotional))
        risk_score == RMax(Zero, RMin(One, raw))
    IN  [risk_score |-> risk_score,
         details |->
            [sensational_score |-> round(s, 1000),
             punctuation_score |-> round(p, 1000),
             caps_score |-> round(c, 1000),
             length_score |-> round(l, 1000),
             emotional_score |-> round(e, 1000),
             overall_risk |-> round(risk_score, 1000),
             flags |-> generate_flags(s, p, c, l)]]

\* analyze as one call on an analyzer whose lists are keywords and words
analyze(keywords, words, hl, bd) ==
    LET txt == combined_text(hl, bd)
    IN  IF txt = <<>> THEN EmptyResult
        ELSE combine(check_sensationalism(keywords, txt), check_punctuation(txt),
                     check_capitalization(txt), check_length(txt, hl),
                     check_emotional_content(words, txt))

----------------------------------------------------------------------------
(* Inputs                                                                  *)

\* the longest generated body, in words
MaxWords == 101

\* the most letters of either case in a generated body
MaxLetters == 6

\* the most vocabulary tokens in a generated body
MaxTokens == 3

\* the classifier's probability is drawn from 0/MlGrid .. MlGrid/MlGrid
MlGrid == 20

\* 'SHOCKING!!! THE TRUTH EXPOSED!!!'
Headline1 ==
    <<"S", "H", "O", "C", "K", "I", "N", "G", "!", "!", "!", " ", "T", "H", "E", " ", "T", "R",
      "U", "T", "H", " ", "E", "X", "P", "O", "S", "E", "D", "!", "!", "!">>

\* 'You won\'t believe what happened!!!'
Body1 ==
    <<"Y", "o", "u", " ", "w", "o", "n", "'", "t", " ", "b", "e", "l", "i", "e", "v", "e", " ",
      "w", "h", "a", "t", " ", "h", "a", "p", "p", "e", "n", "e", "d", "!", "!", "!">>

Headline2 ==
    <<"N", "e", "w", " ", "S", "t", "u", "d", "y", " ", "S", "h", "o", "w", "s", " ", "C", "l",
      "i", "m", "a", "t", "e", " ", "I", "m", "p", "a", "c", "t", " ", "o", "n", " ", "C", "o",
      "a", "s", "t", "a", "l", " ", "R", "e", "g", "i", "o", "n", "s">>

Body2 ==
    <<"A", " ", "c", "o", "m", "p", "r", "e", "h", "e", "n", "s", "i", "v", "e", " ", "s", "t",
      "u", "d", "y", " ", "p", "u", "b", "l", "i", "s", "h", "e", "d", " ", "t", "o", "d", "a",
      "y", " ", "i", "n", " ", "N", "a", "t", "u", "r", "e", " ", "C", "l", "i", "m", "a", "t",
      "e", " ", "C", "h", "a", "n", "g", "e", " ", "e", "x", "a", "m", "i", "n", "e", "s", " ",
      "t", "h", "e", " ", "l", "o", "n", "g", "-", "t", "e", "r", "m", " ", "e", "f", "f", "e",
      "c", "t", "s", " ", "o", "f", " ", "r", "i", "s", "i", "n", "g", " ", "s", "e", "a", " ",
      "l", "e", "v", "e", "l", "s", " ", "o", "n", " ", "c", "o", "a", "s", "t", "a", "l", " ",
      "e", "c", "o", "s", "y", "s", "t", "e", "m", "s", ".">>

Headline3 ==
    <<"B", "R", "E", "A", "K", "I", "N", "G", ":", " ", "B", "A", "N", "N", "E", "D", " ", "s",
      "u", "b", "s", "t", "a", "n", "c", "e", " ", "f", "o", "u", "n", "d", "!", "!", "!">>

Body3 ==
    <<"U", "R", "G", "E", "N", "T", " ", "A", "L", "E", "R", "T", "!">>

\* 'Wait... what?! Really?'
Headline4 ==
    <<"W", "a", "i", "t", ".", ".", ".", " ", "w", "h", "a", "t", "?", "!", " ", "R", "e", "a",
      "l", "l", "y", "?">>

\* 'I hate this!?!'
Headline5 ==
    <<"I", " ", "h", "a", "t", "e", " ", "t", "h", "i", "s", "!", "?", "!">>

\* 'THE TRUTH! is OUT! we ALL! saw it on tv'
Headline6 ==
    <<"T", "H", "E", " ", "T", "R", "U", "T", "H", "!", " ", "i", "s", " ", "O", "U", "T", "!",
      " ", "w", "e", " ", "A", "L", "L", "!", " ", "s", "a", "w", " ", "i", "t", " ", "o", "n",
      " ", "t", "v">>

Empty == <<>>

Blank == <<" ", "\t", "\n">>

\* n copies of s
Repeat(s, n) == [i \in 1..(n * Len(s)) |-> s[((i - 1) % Len(s)) + 1]]

RECURSIVE Concat(_)
Concat(ss) == IF ss = <<>> THEN <<>> ELSE Head(ss) \o Concat(Tail(ss))

\* n words separated by single spaces
Words(n) == Repeat(<<"o", "n", " ">>, n)

\* u uppercase letters followed by l lowercase letters and a digit
CapsText(u, l) == Repeat(<<"Q">>, u) \o Repeat(<<"q">>, l) \o <<"7">>

Vocabulary ==
    << <<"S", "h", "o", "c", "k", "i", "n", "g">>,
       <<"t", "r", "u", "t", "h">>,
       <<"L", "E", "A", "K", "E", "D">>,
       <<"h", "a", "t", "e">>,
       <<"!">>, <<"?">>, <<" ">> >>

\* the concatenations of at most MaxTokens vocabulary entries with indices in ix
TokenBodies(ix) ==
    UNION {{Concat([i \in 1..n |-> Vocabulary[f[i]]]) : f \in [1..n -> ix]}
           : n \in 0..MaxTokens}

\* the indices of the sensational keywords of the vocabulary
KeywordTokens == {1, 2, 3}

\* the calls of the test harness at the end of text_analyzer.py, further
\* headlines without a body, and blank calls
FixedInputs ==
    {<<Headline1, Body1>>, <<Headline2, Body2>>, <<Headline3, Body3>>,
     <<Headline4, Empty>>, <<Headline5, Empty>>, <<Headline6, Empty>>, <<Empty, Body3>>,
     <<Empty, Empty>>, <<Blank, Empty>>, <<Blank, Blank>>}

WordInputs == {<<hl, Words(n)>> : hl \in {Empty, Headline2}, n \in 0..MaxWords}

CapsInputs == {<<Empty, CapsText(u, l)>> : u \in 0..MaxLetters, l \in 0..MaxLetters}

TokenInputs == {<<Empty, bd>> : bd \in TokenBodies(DOMAIN Vocabulary)}

KeywordInputs == {<<Headline3, bd>> : bd \in TokenBodies(KeywordTokens)}

Inputs == FixedInputs \cup WordInputs \cup CapsInputs \cup TokenInputs \cup KeywordInputs

Callers == {1, 2}

----------------------------------------------------------------------------
(* State machine                                                           *)

ClearLocals(c) ==
    /\ text' = [text EXCEPT ![c] = NoValue]
    /\ sensational_score' = [sensational_score EXCEPT ![c] = NoValue]
    /\ punctuation_score' = [punctuation_score EXCEPT ![c] = NoValue]
    /\ caps_score' = [caps_score EXCEPT ![c] = NoValue]
    /\ length_score' = [length_score EXCEPT ![c] = NoValue]
    /\ emotional_score' = [emotional_score EXCEPT ![c] = NoValue]

Blanks == [c \in Callers |-> NoValue]

InitWith(start, inputs) ==
    /\ sensational_keywords = SENSATIONAL_KEYWORDS
    /\ emotional_words = EMOTIONAL_WORDS
    /\ \E inp \in inputs :
          /\ headline = [c \in Callers |-> IF c = 1 THEN inp[1] ELSE NoValue]
          /\ body = [c \in Callers |-> IF c = 1 THEN inp[2] ELSE NoValue]
    /\ pc = [c \in Callers |-> IF c = 1 THEN start ELSE "idle"]
    /\ text = Blanks
    /\ sensational_score = Blanks
    /\ punctuation_score = Blanks
    /\ caps_score = Blanks
    /\ length_score = Blanks
    /\ emotional_score = Blanks
    /\ result = Blanks
    /\ ml_fake_score = Blanks
    /\ final_score = Blanks
    /\ verdict = Blanks
    /\ confidence = Blanks
    /\ prediction = Blanks

\* a caller invokes analyzer.analyze(hl, bd)
Call(c, hl, bd) ==
    /\ pc[c] = "idle"
    /\ headline' = [headline EXCEPT ![c] = hl]
    /\ body' = [body EXCEPT ![c] = bd]
    /\ result' = [result EXCEPT ![c] = NoValue]
    /\ pc' = [pc EXCEPT ![c] = "analyze"]
    /\ UNCHANGED <<analyzerState, locals, predictVars>>

\* analyze, lines 44-47: form the text; an empty text returns at once
FormText(c) ==
    /\ pc[c] = "analyze"
    /\ LET txt == combined_text(headline[c], body[c])
       IN  /\ text' = [text EXCEPT ![c] = txt]
           /\ IF txt = <<>>
              THEN /\ result' = [result EXCEPT ![c] = EmptyResult]
                   /\ pc' = [pc EXCEPT ![c] = "done"]
              ELSE /\ result' = result
                   /\ pc' = [pc EXCEPT ![c] = "sensational"]
    /\ UNCHANGED <<analyzerState, args,
                   sensational_score, punctuation_score, caps_score, length_score,
                   emotional_score, predictVars>>

\* variant: a keyword that matched is removed from the shared list
Sensationalism_consuming(c) ==
    /\ pc[c] = "sensational"
    /\ sensational_score' =
          [sensational_score EXCEPT ![c] = check_sensationalism(sensational_keywords, text[c])]
    /\ sensational_keywords' =
          SelectSeq(sensational_keywords, LAMBDA w : ~Contains(lower(text[c]), w))
    /\ pc' = [pc EXCEPT ![c] = "punctuation"]
    /\ UNCHANGED <<emotional_words, args, text,
                   punctuation_score, caps_score, length_score, emotional_score,
                   result, predictVars>>

\* analyze, line 50
Sensationalism(c) ==
    /\ pc[c] = "sensational"
    /\ sensational_score' =
          [sensational_score EXCEPT ![c] = check_sensationalism(sensational_keywords, text[c])]
    /\ pc' = [pc EXCEPT ![c] = "punctuation"]
    /\ UNCHANGED <<analyzerState, args, text,
                   punctuation_score, caps_score, length_score, emotional_score,
                   result, predictVars>>

\* analyze, line 51
Punctuation(c) ==
    /\ pc[c] = "punctuation"
    /\ punctuation_score' = [punctuation_score EXCEPT ![c] = check_punctuation(text[c])]
    /\ pc' = [pc EXCEPT ![c] = "caps"]
    /\ UNCHANGED <<analyzerState, args, text,
                   sensational_score, caps_score, length_score, emotional_score,
                   result, predictVars>>

\* analyze, line 52
Capitalization(c) ==
    /\ pc[c] = "caps"
    /\ caps_score' = [caps_score EXCEPT ![c] = check_capitalization(text[c])]
    /\ pc' = [pc EXCEPT ![c] = "length"]
    /\ UNCHANGED <<analyzerState, args, text,
                   sensational_score, punctuation_score, length_score, emotional_score,
                   result, predictVars>>

\* analyze, line 53
Length(c) ==
    /\ pc[c] = "length"
    /\ length_score' = [length_score EXCEPT ![c] = check_length(text[c], headline[c])]
    /\ pc' = [pc EXCEPT ![c] = "emotional"]
    /\ UNCHANGED <<analyzerState, args, text,
                   sensational_score, punctuation_score, caps_score, emotional_score,
                   result, predictVars>>

\* analyze, line 54
Emotional(c) ==
    /\ pc[c] = "emotional"
    /\ emotional_score' =
          [emotional_score EXCEPT ![c] = check_emotional_content(emotional_words, text[c])]
    /\ pc' = [pc EXCEPT ![c] = "combine"]
    /\ UNCHANGED <<analyzerState, args, text,
                   sensational_score, punctuation_score, caps_score, length_score,
                   result, predictVars>>

\* analyze, lines 57-87
Combine(c) ==
    /\ pc[c] = "combine"
    /\ result' = [result EXCEPT ![c] =
          combine(sensational_score[c], punctuation_score[c], caps_score[c],
                  length_score[c], emotional_score[c])]
    /\ pc' = [pc EXCEPT ![c] = "done"]
    /\ UNCHANGED <<analyzerState, args, text,
                   sensational_score, punctuation_score, caps_score, length_score,
                   emotional_score, predictVars>>

\* the caller has consumed the result; the call's locals are discarded
Return(c) ==
    /\ pc[c] = "done"
    /\ ml_fake_score[c] = NoValue
    /\ pc' = [pc EXCEPT ![c] = "idle"]
    /\ ClearLocals(c)
    /\ UNCHANGED <<analyzerState, args, result,
                   predictVars>>

AnalyzeStep(c) ==
    \/ FormText(c)
    \/ Sensationalism(c)
    \/ Punctuation(c)
    \/ Capitalization(c)
    \/ Length(c)
    \/ Emotional(c)
    \/ Combine(c)

----------------------------------------------------------------------------
(* predict_news (src/app.py)                                               *)

PredictError == [error |-> "Please provide some text to analyze"]

\* predict_news, lines 94-99: the content check
PredictStart(c) ==
    /\ pc[c] = "predict"
    /\ IF combined_text(headline[c], body[c]) = <<>>
       THEN /\ prediction' = [prediction EXCEPT ![c] = PredictError]
            /\ pc' = [pc EXCEPT ![c] = "predict_done"]
       ELSE /\ prediction' = prediction
            /\ pc' = [pc EXCEPT ![c] = "classify"]
    /\ UNCHANGED <<analyzerState, args, locals, result, ml_fake_score, final_score,
                   verdict, confidence>>

\* predict_news, lines 102-113: the classifier is opaque and yields any
\* probability of class 0; analyze is then called
Classify(c) ==
    /\ pc[c] = "classify"
    /\ \E k \in 0..MlGrid : ml_fake_score' = [ml_fake_score EXCEPT ![c] = Rat(k, MlGrid)]
    /\ pc' = [pc EXCEPT ![c] = "analyze"]
    /\ UNCHANGED <<analyzerState, args, locals, result, final_score, verdict,
                   confidence, prediction>>

Hundred == Rat(100, 1)

\* predict_news, lines 117-131
final_of(ml, heuristic_score) == RAdd(RMul(ml, Rat(6, 10)), RMul(heuristic_score, Rat(4, 10)))

\* variant: the moderate threshold is inclusive
verdict_of_inclusive(final) ==
    IF RGreater(final, Rat(7, 10)) THEN "HIGH RISK - Likely Fake News"
    ELSE IF ~RLess(final, Rat(4, 10)) THEN "MODERATE RISK - Verify Sources"
    ELSE "LOW RISK - Appears Legitimate"

verdict_of(final) ==
    IF RGreater(final, Rat(7, 10)) THEN "HIGH RISK - Likely Fake News"
    ELSE IF RGreater(final, Rat(4, 10)) THEN "MODERATE RISK - Verify Sources"
    ELSE "LOW RISK - Appears Legitimate"

color_of(final) ==
    IF RGreater(final, Rat(7, 10)) THEN "danger"
    ELSE IF RGreater(final, Rat(4, 10)) THEN "warning"
    ELSE "success"

confidence_of(final) ==
    IF RGreater(final, Rat(7, 10)) THEN RMul(final, Hundred)
    ELSE IF RGreater(final, Rat(4, 10)) THEN RMul(final, Hundred)
    ELSE RMul(RSub(One, final), Hundred)

\* predict_news, lines 117-148, once analyze has returned; the classifier's two
\* probabilities sum to one; model_name is loaded metadata and is left out
PredictCombine(c) ==
    /\ pc[c] = "done"
    /\ ml_fake_score[c] # NoValue
    /\ LET heuristic_score == result[c].risk_score
           final == final_of(ml_fake_score[c], heuristic_score)
       IN  /\ final_score' = [final_score EXCEPT ![c] = final]
           /\ verdict' = [verdict EXCEPT ![c] = verdict_of(final)]
           /\ confidence' = [confidence EXCEPT ![c] = confidence_of(final)]
           /\ prediction' = [prediction EXCEPT ![c] =
                 [verdict |-> verdict_of(final),
                  color |-> color_of(final),
                  confidence |-> round(confidence_of(final), 100),
                  final_score |-> round(final, 1000),
                  ml_score |-> round(ml_fake_score[c], 1000),
                  heuristic_score |-> round(heuristic_score, 1000),
                  ml_confidence |->
                     [fake |-> round(RMul(ml_fake_score[c], Hundred), 100),
                      real |-> round(RMul(RSub(One, ml_fake_score[c]), Hundred), 100)],
                  heuristic_details |-> result[c].details]]
    /\ pc' = [pc EXCEPT ![c] = "predict_done"]
    /\ UNCHANGED <<analyzerState, args, locals, result, ml_fake_score>>

----------------------------------------------------------------------------
(* Specifications                                                          *)

\* any number of calls of analyze by callers sharing one analyzer, interleaved
CallInputs ==
    {<<Headline1, Body1>>, <<Headline3, Body3>>, <<Headline5, Empty>>,
     <<Empty, Empty>>, <<Blank, Blank>>}

Init == InitWith("idle", {<<NoValue, NoValue>>})

Next ==
    \E c \in Callers :
        \/ \E inp \in CallInputs : Call(c, inp[1], inp[2])
        \/ AnalyzeStep(c)
        \/ Return(c)

Spec == Init /\ [][Next]_vars

\* one call of analyze on each input
InitAnalyze == InitWith("analyze", Inputs)

NextAnalyze == \E c \in Callers : AnalyzeStep(c)

SpecAnalyze == InitAnalyze /\ [][NextAnalyze]_vars

\* one call of analyze on each text built from the vocabulary
InitKeywords == InitWith("analyze", TokenInputs \cup KeywordInputs)

SpecKeywords == InitKeywords /\ [][NextAnalyze]_vars

\* one call of predict_news on each input
PredictInputs == FixedInputs \cup CapsInputs

InitPredict == InitWith("predict", PredictInputs)

NextPredict ==
    \E c \in Callers :
        \/ PredictStart(c)
        \/ Classify(c)
        \/ AnalyzeStep(c)
        \/ PredictCombine(c)

SpecPredict == InitPredict /\ [][NextPredict]_vars

----------------------------------------------------------------------------
(* Properties                                                              *)

\* x is a rational in [0, 1]
InUnit(x) == Den(x) > 0 /\ 0 <= Num(x) /\ Num(x) <= Den(x)

\* every character of s is whitespace
AllBlank(s) == \A i \in 1..Len(s) : s[i] \in Whitespace

Computed(c) == pc[c] \in {"done", "predict_done"} /\ ~AllBlank(headline[c] \o body[c])

ScoreNames ==
    {"sensational_score", "punctuation_score", "caps_score", "length_score",
     "emotional_score", "overall_risk"}

\* C1: whenever the trimmed concatenation of headline and body is non-empty,
\* the risk score analyze returns is in [0, 1], and so is each of the five
\* sub-scores it computes, both as computed and as reported in the details.
C1_ScoresInUnitInterval ==
    \A c \in Callers :
        /\ \A v \in {sensational_score[c], punctuation_score[c], caps_score[c],
                     length_score[c], emotional_score[c]} : v = NoValue \/ InUnit(v)
        /\ Computed(c) =>
              /\ InUnit(result[c].risk_score)
              /\ \A k \in ScoreNames : InUnit(result[c].details[k])

\* C1 witness: the first call of the test harness has returned; its punctuation
\* anomalies sum to 12, far above the cap, and the score is 1.
C1_Witness ==
    /\ pc[1] = "done"
    /\ headline[1] = Headline1 /\ body[1] = Body1
    /\ punctuation_score[1] = <<1, 1>>
    /\ result[1].risk_score = <<763, 1000>>

\* C2: when headline and body hold nothing but whitespace, analyze returns a
\* result carrying the error indicator, with no sub-score and no flags, and
\* none of the five sub-scores has been computed.
C2_EmptyInputGivesError ==
    \A c \in Callers :
        (pc[c] = "done" /\ AllBlank(headline[c]) /\ AllBlank(body[c])) =>
            /\ result[c].risk_score = <<0, 1>>
            /\ DOMAIN result[c].details = {"error"}
            /\ result[c].details.error = "Empty text"
            /\ sensational_score[c] = NoValue
            /\ punctuation_score[c] = NoValue
            /\ caps_score[c] = NoValue
            /\ length_score[c] = NoValue
            /\ emotional_score[c] = NoValue

\* C2 witness: a call with whitespace-only headline and body has returned the
\* error result.
C2_Witness ==
    /\ pc[1] = "done"
    /\ headline[1] = Blank /\ body[1] = Blank
    /\ "error" \in DOMAIN result[1].details

\* C3: in every interleaving of calls by callers sharing one analyzer, the two
\* keyword lists stay as constructed, and every call that has returned holds
\* the result the same headline and body yield when analyzed alone, so that
\* calls with identical inputs hold identical results.
C3_CallsAreIndependent ==
    /\ sensational_keywords = SENSATIONAL_KEYWORDS
    /\ emotional_words = EMOTIONAL_WORDS
    /\ \A c \in Callers :
          pc[c] = "done" =>
              result[c] = analyze(SENSATIONAL_KEYWORDS, EMOTIONAL_WORDS,
                                  headline[c], body[c])
    /\ \A c1, c2 \in Callers :
          (pc[c1] = "done" /\ pc[c2] = "done"
              /\ headline[c1] = headline[c2] /\ body[c1] = body[c2]) =>
                  result[c1] = result[c2]

\* C3 witness: two callers have analyzed the same text in overlapping calls and
\* both hold their result.
C3_Witness ==
    /\ pc[1] = "done" /\ pc[2] = "done"
    /\ headline[1] = Headline1 /\ headline[2] = Headline1
    /\ body[1] = Body1 /\ body[2] = Body1
    /\ text[1] = text[2] /\ text[1] # NoValue
    /\ result[1] = result[2]
    /\ result[1].risk_score = <<763, 1000>>

\* the occurrences in s of the entries k..Len(words) of words, added up
RECURSIVE OccurrencesFrom(_, _, _)
OccurrencesFrom(words, s, k) ==
    IF k > Len(words) THEN 0
    ELSE count(s, words[k]) + OccurrencesFrom(words, s, k + 1)

\* the number of occurrences of sensational keywords in s
Occurrences(s) == OccurrencesFrom(SENSATIONAL_KEYWORDS, lower(s), 1)

\* the number of sensational keywords that occur in s at least once
DistinctKeywords(s) ==
    Cardinality({k \in DOMAIN SENSATIONAL_KEYWORDS :
                    count(lower(s), SENSATIONAL_KEYWORDS[k]) >= 1})

IsFirstTestCase(c) == pc[c] = "done" /\ headline[c] = Headline1 /\ body[c] = Body1

Includes(seq, x) == \E i \in DOMAIN seq : seq[i] = x

\* C4: for the first call of the test harness analyze gives sensational score
\* 1 on 3 keyword matches, a punctuation score above 0.6, a risk above 0.7 that get_verdict maps to
\* HIGH RISK, and flags for sensationalist language, punctuation and
\* capitalization.
C4_FirstTestCaseIsHighRisk ==
    \A c \in Callers :
        IsFirstTestCase(c) =>
            /\ DistinctKeywords(text[c]) = 3
            /\ sensational_score[c] = <<1, 1>>
            /\ 10 * Num(punctuation_score[c]) > 6 * Den(punctuation_score[c])
            /\ 10 * Num(result[c].risk_score) > 7 * Den(result[c].risk_score)
            /\ get_verdict(result[c].risk_score) = "HIGH RISK"
            /\ Includes(result[c].details.flags, FlagSensational)
            /\ Includes(result[c].details.flags, FlagPunctuation)
            /\ Includes(result[c].details.flags, FlagCaps)

\* C4 witness: that call has returned with all four flags.
C4_Witness ==
    /\ IsFirstTestCase(1)
    /\ result[1].details.flags = <<FlagSensational, FlagPunctuation, FlagCaps, FlagLength>>

UpperCount(s) == Cardinality({i \in 1..Len(s) : s[i] \in UpperSet})

LetterCount(s) == Cardinality({i \in 1..Len(s) : s[i] \in UpperSet \cup LowerSet})

\* C5 as stated: for the first call of the test harness the capitalization
\* sub-score is 1.0.
C5_Original ==
    \A c \in Callers : IsFirstTestCase(c) => caps_score[c] = <<1, 1>>

\* C5 as amended: for the first call of the test harness 24 of the 49 letters
\* of the combined text are uppercase, a ratio in the bracket above 0.4 and not
\* above 0.6, and the capitalization sub-score is 0.7.
C5_FirstTestCaseCapsScore ==
    \A c \in Callers :
        IsFirstTestCase(c) =>
            /\ UpperCount(text[c]) = 24
            /\ LetterCount(text[c]) = 49
            /\ caps_score[c] = <<7, 10>>
            /\ result[c].details.caps_score = <<7, 10>>

\* C5 witness: that call has returned with capitalization sub-score 0.7.
C5_Witness == IsFirstTestCase(1) /\ caps_score[1] = <<7, 10>>

AtLeast(x, y) == Num(x) * Den(y) >= Num(y) * Den(x)

\* appending an occurrence of any sensational keyword to the text of caller c
\* does not lower the sensational sub-score
MonotoneInKeywords(c) ==
    \A k \in DOMAIN SENSATIONAL_KEYWORDS :
        AtLeast(check_sensationalism(sensational_keywords,
                                     text[c] \o <<" ">> \o SENSATIONAL_KEYWORDS[k]),
                sensational_score[c])

JustScoredSensationalism(c) == pc[c] = "punctuation"

\* C6 as stated: adding keyword occurrences never lowers the sensational
\* sub-score, and the score is 1.0 whenever the text holds at least 3
\* occurrences of sensational keywords.
C6_Original ==
    \A c \in Callers :
        JustScoredSensationalism(c) =>
            /\ MonotoneInKeywords(c)
            /\ Occurrences(text[c]) >= 3 => sensational_score[c] = <<1, 1>>

\* C6 as amended: adding keyword occurrences never lowers the sensational
\* sub-score; the score is a third of the number of distinct keywords that
\* occur in the text, capped at 1, so it is 1.0 whenever at least 3 distinct
\* keywords occur (repeats of one keyword count once).
C6_SaturatesOnDistinctKeywords ==
    \A c \in Callers :
        JustScoredSensationalism(c) =>
            LET n == DistinctKeywords(text[c])
            IN  /\ MonotoneInKeywords(c)
                /\ n >= 3 => sensational_score[c] = <<1, 1>>
                /\ n < 3 => 3 * Num(sensational_score[c]) = n * Den(sensational_score[c])

\* C6 witness: a text with four distinct keywords, one of them twice, has been
\* scored 1.
C6_Witness ==
    /\ JustScoredSensationalism(1)
    /\ headline[1] = Headline3
    /\ DistinctKeywords(text[1]) = 4
    /\ Occurrences(text[1]) = 5
    /\ sensational_score[1] = <<1, 1>>

\* C7: with u the uppercase letters and n the letters of the text, the
\* capitalization sub-score is 0 when n = 0, 1.0 when u/n > 0.6, 0.7 when
\* 0.4 < u/n <= 0.6, 0.4 when 0.2 < u/n <= 0.4 and 2u/n when u/n <= 0.2; so
\* ratio 0.6 gives 0.7, ratio 0.4 gives 0.4 and ratio 0.2 gives 0.4.
C7_CapsThresholdsAreStrict ==
    \A c \in Callers :
        caps_score[c] # NoValue =>
            LET u == UpperCount(text[c])
                n == LetterCount(text[c])
                score == caps_score[c]
            IN  /\ n = 0 => score = <<0, 1>>
                /\ (n > 0 /\ 10 * u > 6 * n) => score = <<1, 1>>
                /\ (n > 0 /\ 10 * u <= 6 * n /\ 10 * u > 4 * n) => score = <<7, 10>>
                /\ (n > 0 /\ 10 * u <= 4 * n /\ 10 * u > 2 * n) => score = <<2, 5>>
                /\ (n > 0 /\ 10 * u <= 2 * n) => Num(score) * n = 2 * u * Den(score)
                /\ (n > 0 /\ 10 * u = 2 * n) => score = <<2, 5>>

\* C7 witness: a text of 3 uppercase and 2 lowercase letters, ratio exactly
\* 0.6, has been scored 0.7.
C7_Witness ==
    /\ UpperCount(text[1]) = 3 /\ LetterCount(text[1]) = 5
    /\ caps_score[1] = <<7, 10>>

\* the number of maximal runs of non-whitespace characters of s
WordCount(s) ==
    Cardinality({i \in 1..Len(s) :
                    s[i] \notin Whitespace /\ (i = 1 \/ s[i - 1] \in Whitespace)})

\* C8: the length sub-score is a function of the word count w of the combined
\* text alone: 1 - w/50 when w < 50, 0.3 when 50 <= w < 100, 0 when w >= 100.
C8_LengthBrackets ==
    \A c \in Callers :
        length_score[c] # NoValue =>
            LET w == WordCount(text[c])
                score == length_score[c]
            IN  /\ w < 50 => Num(score) * 50 = (50 - w) * Den(score)
                /\ (50 <= w /\ w < 100) => score = <<3, 10>>
                /\ w >= 100 => score = <<0, 1>>

\* C8 witness: a text of exactly 50 words, 8 of them from the headline, has
\* been scored 0.3.
C8_Witness ==
    /\ headline[1] = Headline2
    /\ WordCount(text[1]) = 50
    /\ length_score[1] = <<3, 10>>

Above(x, n, d) == Num(x) * d > n * Den(x)

ExpectedFlags(c) ==
    (IF Above(sensational_score[c], 5, 10) THEN <<FlagSensational>> ELSE <<>>)
    \o (IF Above(punctuation_score[c], 6, 10) THEN <<FlagPunctuation>> ELSE <<>>)
    \o (IF Above(caps_score[c], 6, 10) THEN <<FlagCaps>> ELSE <<>>)
    \o (IF Above(length_score[c], 7, 10) THEN <<FlagLength>> ELSE <<>>)

\* C9: for a non-empty input the flags are exactly the warnings whose own
\* condition holds (sensational > 0.5, punctuation > 0.6, caps > 0.6,
\* length > 0.7, each strict), in that order; the emotional sub-score adds none.
C9_FlagsMatchThresholds ==
    \A c \in Callers :
        Computed(c) => result[c].details.flags = ExpectedFlags(c)

\* C9 witness: a text whose punctuation score is exactly 0.6 and whose
\* emotional score is positive has returned with the short-content flag alone.
C9_Witness ==
    /\ pc[1] = "done"
    /\ punctuation_score[1] = <<3, 5>>
    /\ Above(emotional_score[1], 0, 1)
    /\ result[1].details.flags = <<FlagLength>>

RiskLevel(v) ==
    CASE v = "HIGH RISK - Likely Fake News" -> "HIGH RISK"
      [] v = "MODERATE RISK - Verify Sources" -> "MODERATE RISK"
      [] v = "LOW RISK - Appears Legitimate" -> "LOW RISK"

Predicted(c) == pc[c] = "predict_done" /\ final_score[c] # NoValue

\* C10: predict_news computes final = classifier x 0.6 + heuristic x 0.4, gives
\* it the risk level get_verdict gives the same value, and computes the
\* confidence final x 100 when final > 0.4 and (1 - final) x 100 otherwise.
C10_PredictMatchesVerdict ==
    \A c \in Callers :
        Predicted(c) =>
            LET m == ml_fake_score[c]
                h == result[c].risk_score
                f == final_score[c]
                cf == confidence[c]
            IN  /\ f = Rat(6 * Num(m) * Den(h) + 4 * Num(h) * Den(m),
                            10 * Den(m) * Den(h))
                /\ RiskLevel(verdict[c]) = get_verdict(f)
                /\ Above(f, 7, 10) => RiskLevel(verdict[c]) = "HIGH RISK"
                /\ (Above(f, 4, 10) /\ ~Above(f, 7, 10)) =>
                      RiskLevel(verdict[c]) = "MODERATE RISK"
                /\ ~Above(f, 4, 10) => RiskLevel(verdict[c]) = "LOW RISK"
                /\ Above(f, 4, 10) => cf = Rat(100 * Num(f), Den(f))
                /\ ~Above(f, 4, 10) => cf = Rat(100 * (Den(f) - Num(f)), Den(f))

\* C10 witness: a prediction whose final score is exactly 0.4 is low risk with
\* confidence 60.
C10_Witness ==
    /\ Predicted(1)
    /\ final_score[1] = <<2, 5>>
    /\ verdict[1] = "LOW RISK - Appears Legitimate"
    /\ confidence[1] = <<60, 1>>

====
